---- MODULE Spec2Model ----
(***************************************************************************)
(* Altary MCP server: the configuration store (config.py), the API client  *)
(* with its loopback callback authentication flow (client.py) and the tool *)
(* handlers that glue them together (server.py).                           *)
(*                                                                         *)
(* Python values are modelled as strings: None is NULL, a key that a dict  *)
(* does not hold is ABSENT (reading it raises KeyError).  A dict object    *)
(* that several names refer to is a cell of `heap`, and a name holds the   *)
(* reference.  Every action runs a coroutine from one suspension point     *)
(* (await) to the next, which is the atomicity asyncio gives.              *)
(***************************************************************************)
EXTENDS Naturals, Sequences, FiniteSets, TLC

\* ------------------------------------------------------------------ bounds
MaxCalls == 2          \* tool invocations per run of the process
MaxRequests == 2       \* callback requests the browser sends to one flow
PollIterations == 3    \* stands for range(300) of the polling loop
MaxProjects == 1       \* length of a project list in a remote response

\* The coroutines that run handlers: the first also runs the startup check.
Tasks == {1, 2}

\* ------------------------------------------------------------------ values
NULL == "null"
ABSENT == "absent"

Truthy(v) == v \notin {NULL, ABSENT, ""}

Tokens == {"T1", "T2"}
TokenArgs == Tokens \cup {NULL, ""}
\* arguments["project_id"]: ABSENT when the caller did not give it.
ProjectArgs == {"ALTR-1", "ALTR-2", "P-3", "", NULL, ABSENT}
\* arguments.get("project_id") of altary_errors
ErrorsArgs == {NULL, "ALTR-2"}
\* arguments["error_id"]
ErrorIdArgs == {"E1", ABSENT}
RemoteProjectIds == {"ALTR-1", "P-3"}
StoredUrls == {ABSENT, "https://x"}
\* The query strings of the callback requests: request.query.get gives None
\* for a parameter that is not there.
CallbackQueries ==
    {[token |-> tk, error |-> NULL] : tk \in Tokens \cup {NULL, ""}}
    \cup {[token |-> NULL, error |-> e] : e \in {"", "denied"}}
    \cup {[token |-> "T1", error |-> "denied"], [token |-> "T1", error |-> ""]}

\* The characters of the project ids the model uses.
Chars(s) ==
    CASE s = "ALTR-1" -> <<"A", "L", "T", "R", "-", "1">>
      [] s = "ALTR-2" -> <<"A", "L", "T", "R", "-", "2">>
      [] s = "P-3" -> <<"P", "-", "3">>
      [] OTHER -> << >>

\* A startswith that accepts every string.
StartsWithAnything(s, prefix) == TRUE

\* str.startswith
StartsWith(s, prefix) ==
    /\ Len(Chars(s)) >= Len(prefix)
    /\ SubSeq(Chars(s), 1, Len(prefix)) = prefix

\* ------------------------------------------------------------------ config.py
DefaultApiBaseUrl == "https://altary.web-ts.dev"

\* The auth dict literal of default_config.
DefaultAuth == [token |-> NULL, project_id |-> NULL]

\* default_config: its "auth" entry is a reference to one dict object.
default_config == [api_base_url |-> DefaultApiBaseUrl, auth |-> "default_auth"]

EmptyDict == [token |-> ABSENT, project_id |-> ABSENT]

NoFile(kind) ==
    [kind |-> kind, api_base_url |-> ABSENT, has_auth |-> FALSE, auth |-> EmptyDict]

AuthDicts ==
    [token : {ABSENT, NULL, "T1"}, project_id : {ABSENT, NULL, "ALTR-1"}]

\* What the config file may hold when the process starts.
InitFiles ==
    {NoFile(k) : k \in {"missing", "malformed", "unreadable", "undecodable", "nonobject"}}
    \cup {[kind |-> "object", api_base_url |-> u, has_auth |-> FALSE, auth |-> EmptyDict] :
            u \in StoredUrls}
    \cup {[kind |-> "object", api_base_url |-> u, has_auth |-> TRUE, auth |-> a] :
            u \in StoredUrls, a \in AuthDicts}

\* dict.copy(): a shallow copy, the values (references) are shared.
ShallowCopy(d) == d

\* {**default_config, **config}: the top-level keys of the stored object win.
MergeOverDefaults(f) ==
    [api_base_url |-> IF f.api_base_url = ABSENT THEN default_config.api_base_url
                      ELSE f.api_base_url,
     auth |-> IF f.has_auth THEN "loaded_auth" ELSE default_config.auth]

\* _load_config: the dict it returns, or the exception that escapes it.
\*   missing      the file does not exist
\*   unreadable   open raises IOError (caught)
\*   malformed    the text is not JSON: json.load raises JSONDecodeError (caught)
\*   undecodable  the bytes are not UTF-8: json.load raises UnicodeDecodeError,
\*                which is neither a JSONDecodeError nor an IOError
\*   nonobject    the JSON value is no object: {**d, **value} raises TypeError
LoadConfig(f) ==
    CASE f.kind = "missing" -> [raised |-> FALSE, config |-> ShallowCopy(default_config)]
      [] f.kind \in {"malformed", "unreadable"} ->
            [raised |-> FALSE, config |-> ShallowCopy(default_config)]
      [] f.kind \in {"undecodable", "nonobject"} ->
            [raised |-> TRUE, config |-> default_config]
      [] OTHER -> [raised |-> FALSE, config |-> MergeOverDefaults(f)]

\* json.dump(self._config): the referenced auth dict is written by value.
Serialize(cfg, hp) ==
    [kind |-> "object", api_base_url |-> cfg.api_base_url, has_auth |-> TRUE,
     auth |-> hp[cfg.auth]]

\* How a write of the config file can end.
WriteOutcomes == {"ok", "open_fails", "write_fails"}

\* save_config that returns without having written.
SaveConfigSkipped(cfg, hp, old, w) ==
    CASE w = "write_fails" -> NoFile("malformed")
      [] OTHER -> old

\* save_config: the file after the write, by outcome.
SaveConfig(cfg, hp, old, w) ==
    CASE w = "ok" -> Serialize(cfg, hp)
      [] w = "open_fails" -> old
      [] OTHER -> NoFile("malformed")

SaveRaises(w) == w /= "ok"

\* The property getters; a missing key raises KeyError.
AuthToken(cfg, hp) == hp[cfg.auth].token
ProjectId(cfg, hp) == hp[cfg.auth].project_id
ApiBaseUrl(cfg) == cfg.api_base_url
GetterRaises(v) == v = ABSENT

\* self._config["auth"]["token"] = token
StoreToken(cfg, hp, token) == [hp EXCEPT ![cfg.auth].token = token]
\* self._config["auth"]["project_id"] = project_id
StoreProjectId(cfg, hp, id) == [hp EXCEPT ![cfg.auth].project_id = id]

\* is_configured: bool(self.auth_token and self.project_id); `and` reads the
\* project id only when the token is truthy, and either getter may raise.
IsConfigured(cfg, hp) ==
    IF GetterRaises(AuthToken(cfg, hp)) THEN "raised"
    ELSE IF ~Truthy(AuthToken(cfg, hp)) THEN "false"
    ELSE IF GetterRaises(ProjectId(cfg, hp)) THEN "raised"
    ELSE IF Truthy(ProjectId(cfg, hp)) THEN "true" ELSE "false"

\* clear_config: the new _config.
ClearedConfig == ShallowCopy(default_config)

\* A dict object that no name refers to any more is gone.
Collect(cfg, hp) ==
    IF cfg.auth = "loaded_auth" THEN hp ELSE [hp EXCEPT !.loaded_auth = EmptyDict]


\* ------------------------------------------------------------------ client.py
ProjectLists == UNION {[1..n -> RemoteProjectIds] : n \in 0..MaxProjects}

\* What the remote service may answer to getUserProjects.
Responses ==
    {[kind |-> k, list |-> p, obj |-> ""] : k \in {"list", "projects_obj"}, p \in ProjectLists}
    \cup {[kind |-> "single_obj", list |-> << >>, obj |-> id] : id \in RemoteProjectIds}
    \cup {[kind |-> k, list |-> << >>, obj |-> ""] :
            k \in {"error_obj", "scalar", "bad_json", "http401", "http403",
                   "http_other", "network"}}
    \cup {[kind |-> "error_obj", list |-> << >>, obj |-> "ALTR-1"]}

\* No response received.
NoResponse == [kind |-> "none", list |-> << >>, obj |-> ""]

\* get_auth_headers raises without a token.
GetAuthHeadersRaises(cfg, hp) == ~Truthy(AuthToken(cfg, hp))

\* get_user_projects that returns a single object as it came.
GetUserProjectsNoWrap(resp) ==
    CASE resp.kind \in {"list", "projects_obj"} -> [raised |-> FALSE, projects |-> resp.list]
      [] resp.kind = "single_obj" -> [raised |-> FALSE, projects |-> << >>]
      [] OTHER -> [raised |-> TRUE, projects |-> << >>]

\* get_user_projects, from the response on: the list it returns, or raised.
\*   list          the payload is a list
\*   projects_obj  the payload is an object with the key "projects"
\*   error_obj     an object without "projects" that has "error" or "message"
\*   single_obj    any other object (obj is its id)
GetUserProjects(resp) ==
    CASE resp.kind = "list" -> [raised |-> FALSE, projects |-> resp.list]
      [] resp.kind = "projects_obj" -> [raised |-> FALSE, projects |-> resp.list]
      [] resp.kind = "single_obj" -> [raised |-> FALSE, projects |-> <<resp.obj>>]
      [] OTHER -> [raised |-> TRUE, projects |-> << >>]

\* get_errors that asks the service without a project id.
GetErrorsNoCheck(project_id, cfg, hp) ==
    IF Truthy(project_id)
    THEN [raised |-> FALSE, failure |-> "none", id |-> project_id]
    ELSE [raised |-> FALSE, failure |-> "none", id |-> ProjectId(cfg, hp)]

\* get_errors up to its request: the project id it asks for, or the failure
\* it raises before any request (KeyError of the getter, no project id, no
\* token for the headers).
GetErrors(project_id, cfg, hp) ==
    IF Truthy(project_id)
    THEN IF GetAuthHeadersRaises(cfg, hp)
         THEN [raised |-> TRUE, failure |-> "no_token", id |-> NULL]
         ELSE [raised |-> FALSE, failure |-> "none", id |-> project_id]
    ELSE IF GetterRaises(ProjectId(cfg, hp))
    THEN [raised |-> TRUE, failure |-> "key_error", id |-> NULL]
    ELSE IF ~Truthy(ProjectId(cfg, hp))
    THEN [raised |-> TRUE, failure |-> "no_project_id", id |-> NULL]
    ELSE IF GetAuthHeadersRaises(cfg, hp)
    THEN [raised |-> TRUE, failure |-> "no_token", id |-> NULL]
    ELSE [raised |-> FALSE, failure |-> "none", id |-> ProjectId(cfg, hp)]

\* What the remote service may answer to getError and to
\* completeErrorWithSimilar.
PayloadResponses ==
    {"success", "success_empty", "not_success", "not_object", "bad_json",
     "http404", "http401", "http_other", "network"}

\* validate_token restoring the token on the success path only.
ValidateTokenNoFinally(cfg, hp, original_token, raised) ==
    IF raised THEN hp ELSE StoreToken(cfg, hp, original_token)

\* validate_token's finally clause: the token put back into the auth dict.
ValidateTokenFinally(cfg, hp, original_token, raised) ==
    StoreToken(cfg, hp, original_token)

\* handle_callback: what a request records in auth_result.
NoTokenMessage == "token_not_found"

\* handle_callback without its else branch.
HandleCallbackNoElse(ar, token, error) ==
    IF Truthy(error) THEN [ar EXCEPT !.error = error]
    ELSE IF Truthy(token) THEN [ar EXCEPT !.token = token]
    ELSE ar

HandleCallback(ar, token, error) ==
    IF Truthy(error) THEN [ar EXCEPT !.error = error]
    ELSE IF Truthy(token) THEN [ar EXCEPT !.token = token]
    ELSE [ar EXCEPT !.error = NoTokenMessage]

\* handle_callback's except clause: the error it records.
CallbackErrorMessage == "callback_error"

HandleCallbackExcept(ar) == [ar EXCEPT !.error = CallbackErrorMessage]

Recorded(ar) == Truthy(ar.token) \/ Truthy(ar.error)

\* The decision after the loop without the test of the recorded error.
FlowDecideNoError(ar) ==
    IF Truthy(ar.token) THEN [kind |-> "token", value |-> ar.token]
    ELSE [kind |-> "timeout", value |-> NULL]

\* The decision after the loop with the token tested first.
FlowDecideTokenFirst(ar) ==
    IF Truthy(ar.token) THEN [kind |-> "token", value |-> ar.token]
    ELSE IF Truthy(ar.error) THEN [kind |-> "auth_error", value |-> ar.error]
    ELSE [kind |-> "timeout", value |-> NULL]

\* The if / elif / else after the polling loop.
FlowDecide(ar) ==
    IF Truthy(ar.error) THEN [kind |-> "auth_error", value |-> ar.error]
    ELSE IF Truthy(ar.token) THEN [kind |-> "token", value |-> ar.token]
    ELSE [kind |-> "timeout", value |-> NULL]

NoOutcome == [kind |-> "none", value |-> NULL]

\* start_callback_auth's locals before the call.
NoFlow ==
    [status |-> "none", probe |-> "none", runner |-> "none", site |-> "none",
     browser |-> "none", auth_result |-> [token |-> NULL, error |-> NULL],
     i |-> 0, nreqs |-> 0, first_req |-> [token |-> NULL, error |-> NULL],
     loop_exit |-> "none", recorded_at_exit |-> FALSE, both_at_exit |-> FALSE,
     response |-> "none", outcome |-> NoOutcome]

\* ------------------------------------------------------------------ state
VARIABLES
    phase,        \* "boot", "constructed", "serving", "crashed"
    config_file,  \* the persisted configuration file
    config,       \* AltaryConfig._config
    heap,         \* the auth dict objects _config["auth"] may refer to
    pc,           \* per task: where its coroutine is suspended
    tool,         \* per task: the handler it runs, its project_id
    vt,           \* per task: validate_token's locals
    flow,         \* per task: start_callback_auth's locals and listener
    result,       \* per task: what the last invocation returned
    calls,        \* tool invocations so far
    before,       \* per task: the configuration when the invocation and
                  \* when validate_token started (for the frame claims)
    obs           \* per task: what the invocation has done to the outside:
                  \* remote requests sent, flows started, auth page shown

vars == <<phase, config_file, config, heap, pc, tool, vt, flow, result, calls, before, obs>>

Snapshot == [config |-> config, heap |-> heap, file |-> config_file]

NoSnapshot ==
    [config |-> default_config,
     heap |-> [default_auth |-> DefaultAuth, loaded_auth |-> EmptyDict],
     file |-> NoFile("missing")]

NoValidate == [token |-> NULL, original_token |-> NULL, ret |-> "none"]

NoTool == [name |-> "none", project_id |-> ""]

\* Nothing requested, started or shown yet.
NoObs ==
    [remote |-> 0, header |-> NULL, flow_started |-> FALSE, auth_page |-> FALSE,
     target |-> NULL, resp |-> NoResponse, value |-> << >>]

Init ==
    /\ phase = "boot"
    /\ config_file \in InitFiles
    /\ config = default_config
    /\ heap = [default_auth |-> DefaultAuth, loaded_auth |-> EmptyDict]
    /\ pc = [t \in Tasks |-> "idle"]
    /\ tool = [t \in Tasks |-> NoTool]
    /\ vt = [t \in Tasks |-> NoValidate]
    /\ flow = [t \in Tasks |-> NoFlow]
    /\ result = [t \in Tasks |-> "none"]
    /\ calls = 0
    /\ before = [t \in Tasks |-> [call |-> NoSnapshot, validate |-> NoSnapshot]]
    /\ obs = [t \in Tasks |-> NoObs]


\* ------------------------------------------------------------------ server.py
\* The handler a tool invocation runs: handle_setup_auth has two branches.
Caller(name, token) ==
    IF name = "altary_auth"
    THEN IF Truthy(token) THEN "auth_token" ELSE "auth_auto"
    ELSE name

\* What the calling handler returns when the token validated and was stored.
ResultValid(c) ==
    CASE c = "auth_token" -> "token_set"
      [] c = "auth_auto" -> "auto_token_set"
      [] OTHER -> "startup_ok"

\* ... when validate_token returned False.
ResultInvalid(c) ==
    CASE c = "auth_token" -> "invalid_token"
      [] c = "auth_auto" -> "auto_invalid"
      [] c = "altary_errors" -> "errors_invalid"
      [] OTHER -> "startup_invalid"

\* ... when its except clause caught an exception.
ResultException(c) ==
    CASE c = "auth_token" -> "validation_error"
      [] c = "auth_auto" -> "fallback"
      [] c = "altary_errors" -> "errors_fallback"
      [] OTHER -> "startup_error"

\* The except clauses that open the static login page: client.open_auth_page().
OpensAuthPageNever(c) == FALSE

OpensAuthPage(c) == c \in {"auth_auto", "altary_errors"}

\* call_tool without its try / except: the exception goes to the caller.
CallToolNoExcept(res) == res

\* call_tool's except Exception: an exception that escaped the handler
\* ("raise") becomes the error message.
CallToolExcept(res) == IF res = "raise" THEN "tool_error" ELSE res

\* The handler of task t returns res (the startup check: the server starts).
Return(t, c, res) ==
    /\ pc' = [pc EXCEPT ![t] = "done"]
    /\ result' = [result EXCEPT ![t] = CallToolExcept(res)]
    /\ phase' = IF c = "startup" THEN "serving" ELSE phase

\* The except clause of the handler (of the startup check) catches.
Except(t, c) ==
    /\ Return(t, c, ResultException(c))
    /\ obs' = [obs EXCEPT ![t].auth_page = OpensAuthPage(c)]

\* validate_token up to the await of its trial request.
ValidateBegin(t, token) ==
    /\ UNCHANGED <<result, phase>>
    /\ IF GetterRaises(AuthToken(config, heap))
       THEN \* original_token = self.config.auth_token raises KeyError
            /\ vt' = [vt EXCEPT ![t] = [token |-> token, original_token |-> NULL,
                                        ret |-> "raised"]]
            /\ pc' = [pc EXCEPT ![t] = "validate_done"]
            /\ UNCHANGED <<heap, obs>>
       ELSE IF ~Truthy(token)
       THEN \* get_auth_headers raises inside the try: False, token restored
            /\ heap' = ValidateTokenFinally(config, StoreToken(config, heap, token),
                                            AuthToken(config, heap), TRUE)
            /\ vt' = [vt EXCEPT ![t] = [token |-> token,
                                        original_token |-> AuthToken(config, heap),
                                        ret |-> "false"]]
            /\ pc' = [pc EXCEPT ![t] = "validate_done"]
            /\ UNCHANGED obs
       ELSE /\ heap' = StoreToken(config, heap, token)
            /\ obs' = [obs EXCEPT ![t].remote = @ + 1, ![t].header = token]
            /\ vt' = [vt EXCEPT ![t] = [token |-> token,
                                        original_token |-> AuthToken(config, heap),
                                        ret |-> "none"]]
            /\ pc' = [pc EXCEPT ![t] = "validate_await"]

\* validate_token resumes with the response of the trial request and returns.
ValidateEnd(t, resp) ==
    /\ pc[t] = "validate_await"
    /\ LET r == GetUserProjects(resp)
       IN /\ heap' = ValidateTokenFinally(config, heap, vt[t].original_token, r.raised)
          /\ vt' = [vt EXCEPT ![t].ret = IF r.raised THEN "false" ELSE "true"]
    /\ pc' = [pc EXCEPT ![t] = "validate_done"]
    /\ UNCHANGED <<phase, config_file, config, tool, flow, result, calls, before, obs>>

\* A handler that stores the token whatever validate_token returned.
HandlerStoresAlways(is_valid) == TRUE

\* Whether the handler stores the token validate_token has judged.
HandlerStoresToken(is_valid) == is_valid

\* The setter writing the token under the other key of the auth dict.
SetAuthTokenWrongKey(cfg, hp, token) == StoreProjectId(cfg, hp, token)

\* config.auth_token = token: the auth dict after the assignment.
SetAuthToken(cfg, hp, token) == StoreToken(cfg, hp, token)

\* config.project_id = project_id: the auth dict after the assignment.
SetProjectId(cfg, hp, id) == StoreProjectId(cfg, hp, id)

\* handle_get_errors from its project check to the await of its request:
\* without a default project it asks for the project list, otherwise it
\* calls client.get_errors(project_id).
NoDefaultProjectNever(cfg, hp) == FALSE

\* `if not config.project_id:` of handle_get_errors.
NoDefaultProject(cfg, hp) == ~Truthy(ProjectId(cfg, hp))

ErrorsProjectCheck(t, hp) ==
    IF GetterRaises(ProjectId(config, hp))
    THEN /\ Return(t, "altary_errors", "raise")
         /\ UNCHANGED obs
    ELSE IF NoDefaultProject(config, hp)
    THEN IF GetAuthHeadersRaises(config, hp)
         THEN /\ Return(t, "altary_errors", "errors_projects_failed")
              /\ UNCHANGED obs
         ELSE /\ pc' = [pc EXCEPT ![t] = "errors_projects_await"]
              /\ obs' = [obs EXCEPT ![t].remote = @ + 1,
                                    ![t].header = AuthToken(config, hp)]
              /\ UNCHANGED <<result, phase>>
    ELSE LET g == GetErrors(tool'[t].project_id, config, hp)
         IN IF g.raised
            THEN /\ Return(t, "altary_errors", "errors_failed")
                 /\ UNCHANGED obs
            ELSE /\ pc' = [pc EXCEPT ![t] = "errors_await"]
                 /\ obs' = [obs EXCEPT ![t].remote = @ + 1, ![t].target = g.id,
                                       ![t].header = AuthToken(config, hp)]
                 /\ UNCHANGED <<result, phase>>

\* The handler that awaited validate_token runs to its return (or, in
\* handle_get_errors, to its next await).
ValidateReturn(t, w) ==
    /\ pc[t] = "validate_done"
    /\ UNCHANGED <<config, tool, vt, flow, calls, before>>
    /\ LET c == tool[t].name
       IN IF vt[t].ret = "raised"
          THEN /\ w = "ok"
               /\ Except(t, c)
               /\ UNCHANGED <<heap, config_file>>
          ELSE IF HandlerStoresToken(vt[t].ret = "true")
          THEN /\ heap' = SetAuthToken(config, heap, vt[t].token)
               /\ config_file' = SaveConfig(config, heap', config_file, w)
               /\ IF SaveRaises(w)
                  THEN Except(t, c)
                  ELSE IF c = "altary_errors"
                  THEN ErrorsProjectCheck(t, heap')
                  ELSE IF c = "startup" /\ GetterRaises(ProjectId(config, heap'))
                  THEN Except(t, c)
                  ELSE /\ Return(t, c, ResultValid(c))
                       /\ UNCHANGED obs
          ELSE /\ w = "ok"
               /\ Return(t, c, ResultInvalid(c))
               /\ UNCHANGED <<heap, config_file, obs>>

\* The handler after start_callback_auth has returned or raised.
AfterFlow(t, c, fl) ==
    IF fl.status = "returned"
    THEN ValidateBegin(t, fl.outcome.value)
    ELSE /\ Except(t, c)
         /\ UNCHANGED <<heap, vt>>

\* start_callback_auth up to `await runner.setup()`: find_free_port binds a
\* probe socket and closes it again, also when bind or listen raises.
FlowBegin(t, c, port_ok) ==
    IF port_ok
    THEN /\ flow' = [flow EXCEPT ![t] =
                [NoFlow EXCEPT !.status = "running", !.probe = "closed", !.runner = "new"]]
         /\ pc' = [pc EXCEPT ![t] = "runner_setup"]
         /\ obs' = [obs EXCEPT ![t].flow_started = TRUE]
         /\ UNCHANGED <<result, phase>>
    ELSE /\ flow' = [flow EXCEPT ![t] =
                [NoFlow EXCEPT !.status = "raised", !.probe = "closed",
                               !.outcome = [kind |-> "setup_error", value |-> NULL]]]
         /\ pc' = [pc EXCEPT ![t] = "flow_done"]
         /\ obs' = [obs EXCEPT ![t].flow_started = TRUE]
         /\ UNCHANGED <<result, phase>>

BeginCall(t, name, token, project_id) ==
    /\ phase = "serving"
    /\ pc[t] = "idle"
    /\ calls < MaxCalls
    /\ calls' = calls + 1
    /\ tool' = [tool EXCEPT ![t] = [name |-> Caller(name, token), project_id |-> project_id]]
    /\ before' = [before EXCEPT ![t] = [call |-> Snapshot, validate |-> Snapshot]]

\* call_tool("altary_auth", {token}) with a token: handle_setup_auth.
CallSetupAuthToken(t, token) ==
    /\ Truthy(token)
    /\ BeginCall(t, "altary_auth", token, "")
    /\ ValidateBegin(t, token)
    /\ UNCHANGED <<config_file, config, flow>>

\* call_tool("altary_auth", {}) without a token: handle_setup_auth.
CallSetupAuthAuto(t, token, port_ok) ==
    /\ ~Truthy(token)
    /\ BeginCall(t, "altary_auth", token, "")
    /\ FlowBegin(t, "auth_auto", port_ok)
    /\ UNCHANGED <<config_file, config, heap, vt>>


\* ------------------------------------------------------------------ the flow
\* The coordinator leaves the polling loop (how: "break" or "exhausted") and
\* takes the if / elif / else that follows it, without suspending in between.
LeaveLoop(t, fl, how) ==
    LET d == FlowDecide(fl.auth_result)
        left == [fl EXCEPT !.loop_exit = how,
                           !.recorded_at_exit = Recorded(fl.auth_result),
                           !.both_at_exit = Truthy(fl.auth_result.token)
                                            /\ Truthy(fl.auth_result.error)]
    IN IF d.kind = "token"
       THEN /\ flow' = [flow EXCEPT ![t] = left]
            /\ pc' = [pc EXCEPT ![t] = "hold"]
       ELSE /\ flow' = [flow EXCEPT ![t] = [left EXCEPT !.outcome = d]]
            /\ pc' = [pc EXCEPT ![t] = "cleanup"]

\* A loop head that never reports the limit: the counter starts over instead
\* of ending the loop.
LoopHeadForever(t, fl) ==
    IF Recorded(fl.auth_result) THEN LeaveLoop(t, fl, "break")
    ELSE /\ flow' = [flow EXCEPT ![t] = [fl EXCEPT !.i = 0]]
         /\ pc' = [pc EXCEPT ![t] = "poll_sleep"]

\* One evaluation of the loop head after i sleeps.
LoopHead(t, fl) ==
    IF fl.i >= PollIterations THEN LeaveLoop(t, fl, "exhausted")
    ELSE IF Recorded(fl.auth_result) THEN LeaveLoop(t, fl, "break")
    ELSE /\ flow' = [flow EXCEPT ![t] = fl]
         /\ pc' = [pc EXCEPT ![t] = "poll_sleep"]

\* await runner.setup() returns or raises; it is outside the try block.
FlowRunnerSetup(t, ok) ==
    /\ pc[t] = "runner_setup"
    /\ IF ok
       THEN /\ flow' = [flow EXCEPT ![t].runner = "setup", ![t].site = "new"]
            /\ pc' = [pc EXCEPT ![t] = "site_start"]
       ELSE /\ flow' = [flow EXCEPT ![t].status = "raised",
                           ![t].outcome = [kind |-> "setup_error", value |-> NULL]]
            /\ pc' = [pc EXCEPT ![t] = "flow_done"]
    /\ UNCHANGED <<phase, config_file, config, heap, tool, vt, result, calls, before, obs>>

\* await site.start() returns or raises (the port found by find_free_port
\* was released and may be taken); it is outside the try block as well.  On
\* success the coordinator opens the browser and enters the polling loop.
FlowSiteStart(t, ok, browser_ok) ==
    /\ pc[t] = "site_start"
    /\ IF ok
       THEN LoopHead(t, [flow[t] EXCEPT !.site = "bound",
                            !.browser = IF browser_ok THEN "opened" ELSE "failed"])
       ELSE /\ browser_ok
            /\ flow' = [flow EXCEPT ![t].status = "raised",
                           ![t].outcome = [kind |-> "setup_error", value |-> NULL]]
            /\ pc' = [pc EXCEPT ![t] = "flow_done"]
    /\ UNCHANGED <<phase, config_file, config, heap, tool, vt, result, calls, before, obs>>

\* The browser requests /callback?token=..&error=.. while the listener is up
\* and the coordinator is suspended in one of its sleeps: handle_callback runs.
\* (Once the coordinator is in the finally clause the record is read no more.)
CallbackRequest(t, token, error) ==
    /\ pc[t] \in {"poll_sleep", "hold"}
    /\ flow[t].site = "bound"
    /\ flow[t].nreqs < MaxRequests
    /\ flow' = [flow EXCEPT
            ![t].auth_result = HandleCallback(@, token, error),
            ![t].nreqs = @ + 1,
            ![t].first_req = IF flow[t].nreqs = 0
                             THEN [token |-> token, error |-> error] ELSE @,
            ![t].response = "200"]
    /\ UNCHANGED <<phase, config_file, config, heap, pc, tool, vt, result, calls, before, obs>>

\* A callback request during whose handling an exception is raised, reading
\* the query ("query") or building the response after the record was written
\* ("response"): the except clause records an error and answers 500.
CallbackRequestRaises(t, token, error, at) ==
    /\ pc[t] \in {"poll_sleep", "hold"}
    /\ flow[t].site = "bound"
    /\ flow[t].nreqs < MaxRequests
    /\ flow' = [flow EXCEPT
            ![t].auth_result = IF at = "query" THEN HandleCallbackExcept(@)
                               ELSE HandleCallbackExcept(HandleCallback(@, token, error)),
            ![t].nreqs = @ + 1,
            ![t].first_req = IF flow[t].nreqs = 0
                             THEN [token |-> token, error |-> error] ELSE @,
            ![t].response = "500"]
    /\ UNCHANGED <<phase, config_file, config, heap, pc, tool, vt, result, calls, before, obs>>

\* asyncio.sleep(1) of the polling loop returns.
FlowPollWake(t) ==
    /\ pc[t] = "poll_sleep"
    /\ LoopHead(t, [flow[t] EXCEPT !.i = @ + 1])
    /\ UNCHANGED <<phase, config_file, config, heap, tool, vt, result, calls, before, obs>>

\* asyncio.sleep(3) returns: return auth_result["token"] reads the record again.
FlowHoldEnd(t) ==
    /\ pc[t] = "hold"
    /\ flow' = [flow EXCEPT ![t].outcome =
            [kind |-> "token", value |-> flow[t].auth_result.token]]
    /\ pc' = [pc EXCEPT ![t] = "cleanup"]
    /\ UNCHANGED <<phase, config_file, config, heap, tool, vt, result, calls, before, obs>>

\* The finally clause: await runner.cleanup() returns, and the call returns
\* or raises.
FlowCleanup(t) ==
    /\ pc[t] = "cleanup"
    /\ flow' = [flow EXCEPT ![t].runner = "cleaned", ![t].site = "stopped",
                    ![t].status = IF flow[t].outcome.kind = "token" THEN "returned"
                                  ELSE "raised"]
    /\ pc' = [pc EXCEPT ![t] = "flow_done"]
    /\ UNCHANGED <<phase, config_file, config, heap, tool, vt, result, calls, before, obs>>

\* The handler that awaited start_callback_auth goes on with what the call
\* returned or raised; the locals of the call are gone.
FlowReturn(t) ==
    /\ pc[t] = "flow_done"
    /\ AfterFlow(t, tool[t].name, flow[t])
    /\ flow' = [flow EXCEPT ![t] = NoFlow]
    /\ before' = [before EXCEPT ![t].validate = Snapshot]
    /\ UNCHANGED <<config_file, config, tool, calls>>

\* ------------------------------------------------------------------ other tools
\* An existence check that accepts every id.
ProjectExistsAlways(projects, id) == TRUE

\* any(p.get('report_rand') == project_id or p.get('id') == project_id ...)
ProjectExists(projects, id) == \E k \in 1..Len(projects) : projects[k] = id

AltrPrefix == <<"A", "L", "T", "R", "-">>

\* call_tool("altary_set_project", {project_id}): handle_set_default_project
\* up to the await of get_user_projects.  arguments["project_id"] raises
\* KeyError without the argument, None.startswith raises AttributeError.
CallSetDefaultProject(t, id) ==
    /\ BeginCall(t, "altary_set_project", NULL, id)
    /\ IF id = ABSENT \/ GetterRaises(AuthToken(config, heap))
       THEN /\ Return(t, "altary_set_project", "raise")
            /\ UNCHANGED obs
       ELSE IF ~Truthy(AuthToken(config, heap))
       THEN /\ Return(t, "altary_set_project", "not_authenticated")
            /\ UNCHANGED obs
       ELSE IF id = NULL
       THEN /\ Return(t, "altary_set_project", "raise")
            /\ UNCHANGED obs
       ELSE IF ~StartsWith(id, AltrPrefix)
       THEN /\ Return(t, "altary_set_project", "bad_format")
            /\ UNCHANGED obs
       ELSE /\ pc' = [pc EXCEPT ![t] = "set_project_await"]
            /\ obs' = [obs EXCEPT ![t].remote = @ + 1,
                                  ![t].header = AuthToken(config, heap)]
            /\ UNCHANGED <<result, phase>>
    /\ UNCHANGED <<config_file, config, heap, vt, flow>>

\* get_user_projects returns to handle_set_default_project.
SetDefaultProjectEnd(t, resp, w) ==
    /\ pc[t] = "set_project_await"
    /\ LET r == GetUserProjects(resp)
           id == tool[t].project_id
       IN IF r.raised
          THEN /\ w = "ok"
               /\ Return(t, "altary_set_project", "set_failed")
               /\ UNCHANGED <<heap, config_file>>
          ELSE IF ~ProjectExists(r.projects, id)
          THEN /\ w = "ok"
               /\ Return(t, "altary_set_project", "not_found")
               /\ UNCHANGED <<heap, config_file>>
          ELSE /\ heap' = SetProjectId(config, heap, id)
               /\ config_file' = SaveConfig(config, heap', config_file, w)
               /\ Return(t, "altary_set_project",
                         IF SaveRaises(w) THEN "set_failed" ELSE "project_set")
    /\ UNCHANGED <<config, tool, vt, flow, calls, before, obs>>

\* call_tool("altary_clear", {}): handle_clear_config.
CallClearConfig(t, w) ==
    /\ BeginCall(t, "altary_clear", NULL, "")
    /\ config' = ClearedConfig
    /\ heap' = Collect(config', heap)
    /\ config_file' = SaveConfig(config', heap', config_file, w)
    /\ Return(t, "altary_clear", IF SaveRaises(w) THEN "raise" ELSE "cleared")
    /\ UNCHANGED <<vt, flow, obs>>

\* call_tool with a name it does not know.
CallUnknownTool(t) ==
    /\ BeginCall(t, "unknown", NULL, "")
    /\ Return(t, "unknown", "unknown_tool")
    /\ UNCHANGED <<config_file, config, heap, vt, flow, obs>>

\* call_tool("altary_config", {}): handle_show_config reads the token, the
\* project id and the base url, then is_configured.
CallShowConfig(t) ==
    /\ BeginCall(t, "altary_config", NULL, "")
    /\ IF GetterRaises(AuthToken(config, heap)) \/ GetterRaises(ProjectId(config, heap))
       THEN Return(t, "altary_config", "raise")
       ELSE Return(t, "altary_config",
                   CASE IsConfigured(config, heap) = "true" -> "config_complete"
                     [] IsConfigured(config, heap) = "false" -> "config_incomplete"
                     [] OTHER -> "raise")
    /\ UNCHANGED <<config_file, config, heap, vt, flow, obs>>

\* call_tool("altary_projects", {}): handle_get_user_projects up to its await.
CallGetUserProjects(t) ==
    /\ BeginCall(t, "altary_projects", NULL, "")
    /\ IF GetterRaises(AuthToken(config, heap))
       THEN /\ Return(t, "altary_projects", "raise")
            /\ UNCHANGED obs
       ELSE IF ~Truthy(AuthToken(config, heap))
       THEN /\ Return(t, "altary_projects", "not_authenticated")
            /\ UNCHANGED obs
       ELSE /\ pc' = [pc EXCEPT ![t] = "projects_await"]
            /\ obs' = [obs EXCEPT ![t].remote = @ + 1,
                                  ![t].header = AuthToken(config, heap)]
            /\ UNCHANGED <<result, phase>>
    /\ UNCHANGED <<config_file, config, heap, vt, flow>>

\* get_user_projects returns to handle_get_user_projects: the listing marks
\* the default project, which reads config.project_id inside the try.
GetUserProjectsEnd(t, resp) ==
    /\ pc[t] = "projects_await"
    /\ LET r == GetUserProjects(resp)
       IN Return(t, "altary_projects",
                 IF r.raised THEN "projects_failed"
                 ELSE IF r.projects = << >> THEN "no_projects"
                 ELSE IF GetterRaises(ProjectId(config, heap)) THEN "projects_failed"
                 ELSE "projects_listed")
    /\ UNCHANGED <<config_file, config, heap, tool, vt, flow, calls, before, obs>>

\* call_tool("altary_complete", {error_id}): handle_complete_error up to the
\* await of client.complete_error.  (The id argument of the call is kept in
\* the project_id field of the tool record.)
CallCompleteError(t, error_id) ==
    /\ BeginCall(t, "altary_complete", NULL, error_id)
    /\ IF error_id = ABSENT \/ GetterRaises(AuthToken(config, heap))
       THEN /\ Return(t, "altary_complete", "raise")
            /\ UNCHANGED obs
       ELSE IF ~Truthy(AuthToken(config, heap))
       THEN /\ Return(t, "altary_complete", "not_authenticated")
            /\ UNCHANGED obs
       ELSE /\ pc' = [pc EXCEPT ![t] = "complete_await"]
            /\ obs' = [obs EXCEPT ![t].remote = @ + 1,
                                  ![t].header = AuthToken(config, heap)]
            /\ UNCHANGED <<result, phase>>
    /\ UNCHANGED <<config_file, config, heap, vt, flow>>

\* client.complete_error returns to handle_complete_error.
CompleteErrorEnd(t, payload) ==
    /\ pc[t] = "complete_await"
    /\ Return(t, "altary_complete",
              IF payload \in {"success", "success_empty"} THEN "completed"
              ELSE "complete_failed")
    /\ UNCHANGED <<config_file, config, heap, tool, vt, flow, calls, before, obs>>

\* call_tool("altary_errors", {project_id}): handle_get_errors up to its first
\* await; without a token it runs the callback flow first.
CallGetErrors(t, id, port_ok) ==
    /\ BeginCall(t, "altary_errors", NULL, id)
    /\ IF GetterRaises(AuthToken(config, heap))
       THEN /\ port_ok
            /\ Return(t, "altary_errors", "raise")
            /\ UNCHANGED <<flow, obs>>
       ELSE IF ~Truthy(AuthToken(config, heap))
       THEN FlowBegin(t, "altary_errors", port_ok)
       ELSE /\ port_ok
            /\ ErrorsProjectCheck(t, heap)
            /\ UNCHANGED flow
    /\ UNCHANGED <<config_file, config, heap, vt>>

\* get_user_projects returns to handle_get_errors, which lists the projects
\* to choose a default from.
GetErrorsProjectsEnd(t, resp) ==
    /\ pc[t] = "errors_projects_await"
    /\ LET r == GetUserProjects(resp)
       IN Return(t, "altary_errors",
                 IF r.raised THEN "errors_projects_failed"
                 ELSE IF r.projects = << >> THEN "errors_no_projects"
                 ELSE "errors_choose_project")
    /\ UNCHANGED <<config_file, config, heap, tool, vt, flow, calls, before, obs>>

\* client.get_errors returns to handle_get_errors.
GetErrorsEnd(t, payload) ==
    /\ pc[t] = "errors_await"
    /\ Return(t, "altary_errors",
              CASE payload = "success" -> "errors_listed"
                [] payload = "success_empty" -> "errors_none"
                [] OTHER -> "errors_failed")
    /\ UNCHANGED <<config_file, config, heap, tool, vt, flow, calls, before, obs>>

\* ------------------------------------------------------------------ start
\* config = AltaryConfig() at import: __init__ loads the file.
Construct ==
    /\ phase = "boot"
    /\ LET r == LoadConfig(config_file)
       IN IF r.raised
          THEN /\ phase' = "crashed"
               /\ UNCHANGED <<config, heap>>
          ELSE /\ phase' = "constructed"
               /\ config' = r.config
               /\ heap' = Collect(r.config, [default_auth |-> DefaultAuth,
                                              loaded_auth |-> config_file.auth])
    /\ UNCHANGED <<config_file, pc, tool, vt, flow, result, calls, before, obs>>

\* main: check_login_status_on_startup, run by the first task before the
\* server accepts tool calls.
StartupCheck(port_ok) ==
    /\ phase = "constructed"
    /\ pc[1] = "idle"
    /\ tool' = [tool EXCEPT ![1] = [name |-> "startup", project_id |-> ""]]
    /\ before' = [before EXCEPT ![1] = [call |-> Snapshot, validate |-> Snapshot]]
    /\ IF GetterRaises(AuthToken(config, heap))
       THEN /\ port_ok
            /\ Except(1, "startup")
            /\ UNCHANGED flow
       ELSE IF ~Truthy(AuthToken(config, heap))
       THEN FlowBegin(1, "startup", port_ok)
       ELSE /\ port_ok
            /\ IF GetterRaises(ProjectId(config, heap))
               THEN Except(1, "startup")
               ELSE /\ Return(1, "startup", "startup_authenticated")
                    /\ UNCHANGED obs
            /\ UNCHANGED flow
    /\ UNCHANGED <<config_file, config, heap, vt, calls>>

\* The result has been handed to the caller: the coroutine and its locals
\* are gone.
Ack(t) ==
    /\ pc[t] = "done"
    /\ pc' = [pc EXCEPT ![t] = "idle"]
    /\ tool' = [tool EXCEPT ![t] = NoTool]
    /\ vt' = [vt EXCEPT ![t] = NoValidate]
    /\ flow' = [flow EXCEPT ![t] = NoFlow]
    /\ result' = [result EXCEPT ![t] = "none"]
    /\ before' = [before EXCEPT ![t] = [call |-> NoSnapshot, validate |-> NoSnapshot]]
    /\ obs' = [obs EXCEPT ![t] = NoObs]
    /\ UNCHANGED <<phase, config_file, config, heap, calls>>

\* ------------------------------------------------------------------ specification
Call(t) ==
    \/ \E token \in TokenArgs : CallSetupAuthToken(t, token)
    \/ \E token \in TokenArgs, port_ok \in BOOLEAN : CallSetupAuthAuto(t, token, port_ok)
    \/ \E id \in ProjectArgs : CallSetDefaultProject(t, id)
    \/ \E w \in WriteOutcomes : CallClearConfig(t, w)
    \/ CallUnknownTool(t)
    \/ CallShowConfig(t)
    \/ CallGetUserProjects(t)
    \/ \E error_id \in ErrorIdArgs : CallCompleteError(t, error_id)
    \/ \E id \in ErrorsArgs, port_ok \in BOOLEAN : CallGetErrors(t, id, port_ok)

Step(t) ==
    \/ \E resp \in Responses : ValidateEnd(t, resp)
    \/ \E w \in WriteOutcomes : ValidateReturn(t, w)
    \/ \E ok \in BOOLEAN : FlowRunnerSetup(t, ok)
    \/ \E ok \in BOOLEAN, browser_ok \in BOOLEAN : FlowSiteStart(t, ok, browser_ok)
    \/ \E q \in CallbackQueries : CallbackRequest(t, q.token, q.error)
    \/ FlowPollWake(t)
    \/ FlowHoldEnd(t)
    \/ FlowCleanup(t)
    \/ FlowReturn(t)
    \/ \E resp \in Responses, w \in WriteOutcomes : SetDefaultProjectEnd(t, resp, w)
    \/ \E resp \in Responses : GetUserProjectsEnd(t, resp)
    \/ \E payload \in PayloadResponses : CompleteErrorEnd(t, payload)
    \/ \E resp \in Responses : GetErrorsProjectsEnd(t, resp)
    \/ \E payload \in PayloadResponses : GetErrorsEnd(t, payload)
    \/ Ack(t)

Start ==
    \/ Construct
    \/ \E port_ok \in BOOLEAN : StartupCheck(port_ok)

\* Tool invocations are handled one at a time, by the first task.
Next ==
    \/ Start
    \/ Call(1)
    \/ Step(1)

Spec == Init /\ [][Next]_vars

\* ------------------------------------------------------------------ the flow at startup
\* The process from its start to the end of the startup check, with callback
\* requests whose handling may raise.
NextStartup ==
    \/ Start
    \/ \E ok \in BOOLEAN : FlowRunnerSetup(1, ok)
    \/ \E ok \in BOOLEAN, browser_ok \in BOOLEAN : FlowSiteStart(1, ok, browser_ok)
    \/ \E q \in CallbackQueries : CallbackRequest(1, q.token, q.error)
    \/ \E q \in CallbackQueries, at \in {"query", "response"} :
            CallbackRequestRaises(1, q.token, q.error, at)
    \/ FlowPollWake(1)
    \/ FlowHoldEnd(1)
    \/ FlowCleanup(1)
    \/ FlowReturn(1)
    \/ \E resp \in Responses : ValidateEnd(1, resp)
    \/ \E w \in WriteOutcomes : ValidateReturn(1, w)

SpecStartup == Init /\ [][NextStartup]_vars

\* The coordinator's sleeps and the cleanup of the runner return: the event
\* loop resumes a coroutine whose timer has expired.
SpecStartupLive ==
    /\ SpecStartup
    /\ WF_vars(FlowPollWake(1))
    /\ WF_vars(FlowHoldEnd(1))
    /\ WF_vars(FlowCleanup(1))

\* ------------------------------------------------------------------ from the defaults
\* The process started without a configuration file: _load_config returns
\* the default configuration.
InitDefault == Init /\ config_file = NoFile("missing")

SpecDefault == InitDefault /\ [][Next]_vars

\* ------------------------------------------------------------------ overlapping calls
\* The server handles tool invocations as they arrive, so a handler runs
\* while another one is suspended in an await.  A coroutine that has just
\* got the value of validate_token or start_callback_auth goes on without
\* suspending: nothing else runs in between.
NotResuming(t) == \A u \in Tasks \ {t} : pc[u] \notin {"validate_done", "flow_done"}

\* The handlers that write the configuration, overlapping.
CallConcurrent(t) ==
    \/ \E token \in TokenArgs : NotResuming(t) /\ CallSetupAuthToken(t, token)
    \/ \E id \in ProjectArgs : NotResuming(t) /\ CallSetDefaultProject(t, id)
    \/ \E w \in WriteOutcomes : NotResuming(t) /\ CallClearConfig(t, w)

\* The steps of these handlers and of the startup check.
StepConcurrent(t) ==
    \/ \E resp \in Responses : NotResuming(t) /\ ValidateEnd(t, resp)
    \/ \E w \in WriteOutcomes : NotResuming(t) /\ ValidateReturn(t, w)
    \/ \E ok \in BOOLEAN : NotResuming(t) /\ FlowRunnerSetup(t, ok)
    \/ \E ok \in BOOLEAN, browser_ok \in BOOLEAN : NotResuming(t) /\ FlowSiteStart(t, ok, browser_ok)
    \/ \E q \in CallbackQueries : NotResuming(t) /\ CallbackRequest(t, q.token, q.error)
    \/ NotResuming(t) /\ FlowPollWake(t)
    \/ NotResuming(t) /\ FlowHoldEnd(t)
    \/ NotResuming(t) /\ FlowCleanup(t)
    \/ NotResuming(t) /\ FlowReturn(t)
    \/ \E resp \in Responses, w \in WriteOutcomes : NotResuming(t) /\ SetDefaultProjectEnd(t, resp, w)
    \/ NotResuming(t) /\ Ack(t)

NextConcurrent ==
    \/ Start
    \/ \E t \in Tasks : CallConcurrent(t)
    \/ \E t \in Tasks : StepConcurrent(t)

SpecConcurrent == Init /\ [][NextConcurrent]_vars

\* ------------------------------------------------------------------ overlapping logins
\* The callback requests of the overlapping flows: a token or a refusal.
OverlapQueries == {[token |-> "T1", error |-> NULL], [token |-> NULL, error |-> "denied"]}

\* altary_auth invocations, with and without a token, that overlap in a
\* process started without a configuration file; every save succeeds.
NextOverlap ==
    \/ Start
    \/ \E t \in Tasks, token \in Tokens : NotResuming(t) /\ CallSetupAuthToken(t, token)
    \/ \E t \in Tasks, port_ok \in BOOLEAN : NotResuming(t) /\ CallSetupAuthAuto(t, NULL, port_ok)
    \/ \E t \in Tasks, ok \in BOOLEAN : NotResuming(t) /\ FlowRunnerSetup(t, ok)
    \/ \E t \in Tasks, ok \in BOOLEAN : NotResuming(t) /\ FlowSiteStart(t, ok, TRUE)
    \/ \E t \in Tasks, q \in OverlapQueries : NotResuming(t) /\ CallbackRequest(t, q.token, q.error)
    \/ \E t \in Tasks : NotResuming(t) /\ FlowPollWake(t)
    \/ \E t \in Tasks : NotResuming(t) /\ FlowHoldEnd(t)
    \/ \E t \in Tasks : NotResuming(t) /\ FlowCleanup(t)
    \/ \E t \in Tasks : NotResuming(t) /\ FlowReturn(t)
    \/ \E t \in Tasks, resp \in Responses : NotResuming(t) /\ ValidateEnd(t, resp)
    \/ \E t \in Tasks : NotResuming(t) /\ ValidateReturn(t, "ok")
    \/ \E t \in Tasks : NotResuming(t) /\ Ack(t)

SpecOverlap == InitDefault /\ [][NextOverlap]_vars

\* ------------------------------------------------------------------ the client alone
\* AltaryClient(config) used directly, on a configuration just loaded.
ClientBegin(t, name, project_id) ==
    /\ phase = "constructed"
    /\ pc[t] = "idle"
    /\ calls < MaxCalls
    /\ calls' = calls + 1
    /\ tool' = [tool EXCEPT ![t] = [name |-> name, project_id |-> project_id]]
    /\ before' = [before EXCEPT ![t] = [call |-> Snapshot, validate |-> Snapshot]]

\* The caller of a client method gets its value or its exception.
ClientEnd(t, res) ==
    /\ pc' = [pc EXCEPT ![t] = "done"]
    /\ result' = [result EXCEPT ![t] = res]

\* client.get_errors(project_id) up to the await of its request.
ClientGetErrors(t, project_id) ==
    /\ ClientBegin(t, "client.get_errors", project_id)
    /\ LET g == GetErrors(project_id, config, heap)
       IN IF g.raised
          THEN /\ ClientEnd(t, g.failure)
               /\ UNCHANGED obs
          ELSE /\ pc' = [pc EXCEPT ![t] = "client_errors_await"]
               /\ obs' = [obs EXCEPT ![t].remote = @ + 1, ![t].target = g.id,
                                     ![t].header = AuthToken(config, heap)]
               /\ UNCHANGED result
    /\ UNCHANGED <<phase, config_file, config, heap, vt, flow>>

\* The request of client.get_errors ends: the payload is returned as it was
\* decoded, a status or a transport error is raised.
ClientGetErrorsEnd(t, payload) ==
    /\ pc[t] = "client_errors_await"
    /\ ClientEnd(t, CASE payload \in {"success", "success_empty", "not_success", "not_object"}
                            -> "returned"
                      [] payload = "http404" -> "not_found"
                      [] payload = "http401" -> "auth_failure"
                      [] payload = "network" -> "network_error"
                      [] OTHER -> "failed")
    /\ UNCHANGED <<phase, config_file, config, heap, tool, vt, flow, calls, before, obs>>

\* client.get_user_projects() up to the await of its request.
ClientGetUserProjects(t) ==
    /\ ClientBegin(t, "client.get_user_projects", "")
    /\ IF GetterRaises(AuthToken(config, heap))
       THEN /\ ClientEnd(t, "key_error")
            /\ UNCHANGED obs
       ELSE IF GetAuthHeadersRaises(config, heap)
       THEN /\ ClientEnd(t, "no_token")
            /\ UNCHANGED obs
       ELSE /\ pc' = [pc EXCEPT ![t] = "client_projects_await"]
            /\ obs' = [obs EXCEPT ![t].remote = @ + 1,
                                  ![t].header = AuthToken(config, heap)]
            /\ UNCHANGED result
    /\ UNCHANGED <<phase, config_file, config, heap, vt, flow>>

\* The request of client.get_user_projects ends.
ClientGetUserProjectsEnd(t, resp) ==
    /\ pc[t] = "client_projects_await"
    /\ LET r == GetUserProjects(resp)
       IN /\ ClientEnd(t, IF r.raised THEN "failed" ELSE "returned")
          /\ obs' = [obs EXCEPT ![t].resp = resp, ![t].value = r.projects]
    /\ UNCHANGED <<phase, config_file, config, heap, tool, vt, flow, calls, before>>

NextClient ==
    \/ Construct
    \/ \E id \in ProjectArgs \ {ABSENT} : ClientGetErrors(1, id)
    \/ \E payload \in PayloadResponses : ClientGetErrorsEnd(1, payload)
    \/ ClientGetUserProjects(1)
    \/ \E resp \in Responses : ClientGetUserProjectsEnd(1, resp)
    \/ Ack(1)

SpecClient == Init /\ [][NextClient]_vars

\* ------------------------------------------------------------------ views
\* The configuration a process reads through the getters.
MemView(cfg, hp) ==
    [api_base_url |-> ApiBaseUrl(cfg), token |-> AuthToken(cfg, hp),
     project_id |-> ProjectId(cfg, hp)]

\* The configuration a fresh process would load from file f.
PersistedView(f) ==
    LET cfg == LoadConfig(f).config
    IN MemView(cfg, [default_auth |-> DefaultAuth, loaded_auth |-> f.auth])

DefaultView == [api_base_url |-> DefaultApiBaseUrl, token |-> NULL, project_id |-> NULL]

\* AltaryConfig() has returned and nothing has run since.
JustLoaded == phase = "constructed" /\ pc[1] = "idle"

\* ------------------------------------------------------------------ claims

\* C1: in a flow that received exactly one callback request, a request with
\* only a non-empty token T makes the flow return exactly T, a request with
\* only a non-empty error E makes it fail with the auth failure carrying E,
\* and a request with neither parameter makes it fail with the failure that
\* says the token was not found.
C1_SingleCallbackDecidesFlow ==
    \A t \in Tasks :
        (pc[t] = "flow_done" /\ flow[t].nreqs = 1) =>
            LET q == flow[t].first_req
                o == flow[t].outcome
            IN /\ (Truthy(q.token) /\ q.error = NULL) =>
                      (flow[t].status = "returned" /\ o = [kind |-> "token", value |-> q.token])
               /\ (Truthy(q.error) /\ q.token = NULL) =>
                      (flow[t].status = "raised" /\ o = [kind |-> "auth_error", value |-> q.error])
               /\ (q.token = NULL /\ q.error = NULL) =>
                      (flow[t].status = "raised"
                       /\ o = [kind |-> "auth_error", value |-> NoTokenMessage])

C1_Witness ==
    \E t \in Tasks :
        /\ pc[t] = "flow_done" /\ flow[t].nreqs = 1
        /\ flow[t].first_req = [token |-> "T1", error |-> NULL]
        /\ flow[t].outcome = [kind |-> "token", value |-> "T1"]

\* C2: when start_callback_auth has returned or raised, no listener resource
\* of the call is still set up or bound (the probe socket is closed, the
\* runner is not set up, the site is not bound).
C2_ListenerTornDownOnEveryExit ==
    \A t \in Tasks :
        pc[t] = "flow_done" =>
            /\ flow[t].probe \in {"none", "closed"}
            /\ flow[t].runner /= "setup"
            /\ flow[t].site /= "bound"

\* C3: the flow fails with the timeout failure exactly when the polling loop
\* was left with neither a token nor an error recorded, which happens only
\* after all its iterations; the listener is then stopped when the call ends.
C3_TimeoutIffNothingRecorded ==
    \A t \in Tasks :
        pc[t] = "flow_done" =>
            /\ (flow[t].outcome.kind = "timeout") <=>
                   (flow[t].loop_exit /= "none" /\ ~flow[t].recorded_at_exit)
            /\ flow[t].outcome.kind = "timeout" =>
                   /\ flow[t].loop_exit = "exhausted"
                   /\ flow[t].i = PollIterations
                   /\ flow[t].runner = "cleaned"
                   /\ flow[t].site = "stopped"

C3_Witness ==
    \E t \in Tasks :
        /\ pc[t] = "flow_done"
        /\ flow[t].outcome.kind = "timeout"
        /\ flow[t].i = PollIterations

\* C4: when validate_token has returned (true or false) or raised, the
\* in-memory token, project_id and api_base_url are what they were when it
\* was called.
C4_ValidateTokenRestores ==
    \A t \in Tasks :
        pc[t] = "validate_done" =>
            MemView(config, heap) =
                MemView(before[t].validate.config, before[t].validate.heap)

C4_Witness ==
    \E t \in Tasks :
        /\ pc[t] = "validate_done"
        /\ vt[t].ret = "false"
        /\ vt[t].token = "T2"
        /\ AuthToken(config, heap) = "T1"

\* C5: when the clear tool has returned successfully, the in-memory and the
\* persisted configuration are the defaults: no token, no project id, the
\* default api_base_url.
C5_ClearResetsToDefaults ==
    \A t \in Tasks :
        (pc[t] = "done" /\ result[t] = "cleared") =>
            /\ MemView(config, heap) = DefaultView
            /\ PersistedView(config_file) = DefaultView

\* C6: when setupAuth(token) has returned after a validation that failed
\* (validate_token returned false, or raised), it reports failure and the
\* in-memory and the persisted configuration are what they were at the call.
C6_FailedSetupAuthChangesNothing ==
    \A t \in Tasks :
        (pc[t] = "done" /\ tool[t].name = "auth_token" /\ vt[t].ret \in {"false", "raised"}) =>
            /\ result[t] \in {"invalid_token", "validation_error"}
            /\ config = before[t].call.config
            /\ heap = before[t].call.heap
            /\ config_file = before[t].call.file

C6_Witness ==
    \E t \in Tasks :
        /\ pc[t] = "done" /\ tool[t].name = "auth_token"
        /\ vt[t].ret = "false"
        /\ vt[t].token /= AuthToken(config, heap)

C8_LoadPopulatesAllKeys ==
    (JustLoaded /\ config_file.kind = "object") =>
        LET f == config_file
        IN /\ ApiBaseUrl(config) =
                  (IF f.api_base_url = ABSENT THEN DefaultApiBaseUrl ELSE f.api_base_url)
           /\ AuthToken(config, heap) =
                  (IF f.has_auth /\ f.auth.token /= ABSENT THEN f.auth.token ELSE NULL)
           /\ ProjectId(config, heap) =
                  (IF f.has_auth /\ f.auth.project_id /= ABSENT THEN f.auth.project_id
                   ELSE NULL)

\* C9: the load of a file that is missing, unreadable or holds malformed
\* JSON (text that does not parse, or bytes that are no text at all) does
\* not raise and gives the default configuration.
C9_LoadFallsBackToDefaults ==
    ((JustLoaded \/ phase = "crashed")
     /\ config_file.kind \in {"missing", "unreadable", "malformed", "undecodable"}) =>
        /\ JustLoaded
        /\ MemView(config, heap) = DefaultView

\* C10: when a handler has returned success after setAuthToken, setProjectId
\* or clear, the file holds the in-memory configuration.
C10_SuccessfulMutationIsPersisted ==
    \A t \in Tasks :
        (pc[t] = "done"
         /\ result[t] \in {"token_set", "auto_token_set", "startup_ok", "project_set", "cleared"}) =>
            /\ config_file = Serialize(config, heap)
            /\ PersistedView(config_file) = MemView(config, heap)

C10_Witness ==
    \E t \in Tasks :
        /\ pc[t] = "done" /\ result[t] = "project_set"
        /\ ProjectId(config, heap) = "ALTR-1"
        /\ config_file.auth.project_id = "ALTR-1"

\* C11: the set-default-project tool rejects every project id that does not
\* start with "ALTR-": it never waits for the remote project list with such
\* an id and sends no remote request, it returns an error message, and the
\* project id in memory and the file are what they were at the call.
C11_BadFormatProjectIdRejected ==
    \A t \in Tasks :
        (tool[t].name = "altary_set_project" /\ tool[t].project_id \in {"P-3", "", NULL}) =>
            /\ pc[t] \in {"idle", "done"}
            /\ obs[t].remote = 0
            /\ pc[t] = "done" =>
                   /\ result[t] \in {"bad_format", "not_authenticated", "tool_error"}
                   /\ config = before[t].call.config
                   /\ heap = before[t].call.heap
                   /\ config_file = before[t].call.file

C11_Witness ==
    \E t \in Tasks :
        /\ pc[t] = "done" /\ tool[t].name = "altary_set_project"
        /\ tool[t].project_id = "P-3"
        /\ result[t] = "bad_format"
        /\ ProjectId(config, heap) = "ALTR-1"

\* C12: call_tool returns a text result for every tool name and argument
\* set and never lets an exception through (unknown names, missing
\* arguments, failures of the config store, the client and the flow
\* included); the startup check ends with a message too and the server
\* starts.
C12_HandlerBoundaryCatchesAll ==
    \A t \in Tasks :
        pc[t] = "done" =>
            /\ result[t] \notin {"raise", "none"}
            /\ tool[t].name = "startup" =>
                   /\ phase = "serving"
                   /\ result[t] \in {"startup_ok", "startup_invalid", "startup_error",
                                      "startup_authenticated"}

C12_Witness ==
    \E t \in Tasks :
        /\ pc[t] = "done" /\ tool[t].name = "altary_set_project"
        /\ tool[t].project_id = ABSENT
        /\ result[t] = "tool_error"

\* C13: validate_token never raises: for every candidate token and every
\* loaded configuration it returns true or false.
C13_ValidateTokenNeverRaises ==
    \A t \in Tasks :
        pc[t] = "validate_done" => vt[t].ret \in {"true", "false"}

\* C14 as stated: setupAuth without a token runs the flow; when the flow
\* returned a token that validated, the token is persisted; when the flow
\* failed, nothing is persisted, the static login page is opened and the
\* handler returns the instruction to retry by hand.
C14_AutoSetupPersistsOrFallsBack ==
    \A t \in Tasks :
        (pc[t] = "done" /\ tool[t].name = "auth_auto") =>
            /\ obs[t].flow_started
            /\ vt[t].ret = "true" => PersistedView(config_file).token = vt[t].token
            /\ vt[t] = NoValidate =>
                   /\ config_file = before[t].call.file
                   /\ config = before[t].call.config
                   /\ heap = before[t].call.heap
                   /\ obs[t].auth_page
                   /\ result[t] = "fallback"

\* C14 amended: when the flow returned a token that validated and the file
\* was written, the token is persisted and the handler reports success;
\* when the write failed the token is in memory only and the handler falls
\* back as for a failed flow; when the flow failed nothing is persisted,
\* the static login page is opened and the handler returns the instruction.
C14_AutoSetupPersistsWhenWritten ==
    \A t \in Tasks :
        (pc[t] = "done" /\ tool[t].name = "auth_auto") =>
            /\ obs[t].flow_started
            /\ vt[t].ret = "true" =>
                   /\ AuthToken(config, heap) = vt[t].token
                   /\ result[t] \in {"auto_token_set", "fallback"}
                   /\ result[t] = "auto_token_set" =>
                          /\ config_file = Serialize(config, heap)
                          /\ PersistedView(config_file).token = vt[t].token
                          /\ ~obs[t].auth_page
                   /\ result[t] = "fallback" =>
                          /\ config_file \in {before[t].call.file, NoFile("malformed")}
                          /\ obs[t].auth_page
            /\ vt[t] = NoValidate =>
                   /\ config_file = before[t].call.file
                   /\ config = before[t].call.config
                   /\ heap = before[t].call.heap
                   /\ obs[t].auth_page
                   /\ result[t] = "fallback"

C14_Witness ==
    \E t \in Tasks :
        /\ pc[t] = "done" /\ tool[t].name = "auth_auto"
        /\ vt[t] = NoValidate
        /\ obs[t].flow_started /\ obs[t].auth_page
        /\ result[t] = "fallback"

\* C15: the startup check starts the callback flow exactly when the file
\* holds no auth token at process start; with a token it starts no flow,
\* sends no remote request and leaves memory and file alone; when it runs
\* the flow, the file changes only after a validation that succeeded.
C15_StartupFlowIffNoToken ==
    (tool[1].name = "startup" /\ pc[1] = "done") =>
        LET f == before[1].call.file
            persisted == f.kind = "object" /\ f.has_auth /\ Truthy(f.auth.token)
        IN /\ obs[1].flow_started <=> ~persisted
           /\ persisted =>
                  /\ obs[1].remote = 0
                  /\ config = before[1].call.config
                  /\ heap = before[1].call.heap
                  /\ config_file = f
           /\ config_file /= f => vt[1].ret = "true"

\* C16: is_configured returns true exactly when the token and the project
\* id are both non-empty, and returns false whenever one of them is null
\* or the empty string.
C16_IsConfiguredIffBothSet ==
    phase \in {"constructed", "serving"} =>
        LET tk == AuthToken(config, heap)
            id == ProjectId(config, heap)
        IN /\ IsConfigured(config, heap) = "true" <=> (Truthy(tk) /\ Truthy(id))
           /\ (tk \in {NULL, ""} \/ id \in {NULL, ""}) => IsConfigured(config, heap) = "false"

\* C17 as stated: get_user_projects returns a list payload as it is, the
\* value of "projects" for an object that has the key, and every other
\* object wrapped in a one-element list.
C17_ListProjectsNormalizes ==
    \A t \in Tasks :
        (pc[t] = "done" /\ tool[t].name = "client.get_user_projects"
         /\ obs[t].resp.kind \in {"list", "projects_obj", "single_obj", "error_obj"}) =>
            /\ result[t] = "returned"
            /\ obs[t].value = (IF obs[t].resp.kind \in {"list", "projects_obj"}
                               THEN obs[t].resp.list ELSE <<obs[t].resp.obj>>)

\* C17 amended: a list payload is returned as it is, an object with the key
\* "projects" gives the value of that key, an object without "projects"
\* that has an "error" or a "message" key makes the call fail, and any
\* other object is returned wrapped in a one-element list.
C17_ListProjectsNormalizesOrFails ==
    \A t \in Tasks :
        (pc[t] = "done" /\ tool[t].name = "client.get_user_projects"
         /\ obs[t].resp.kind \in {"list", "projects_obj", "single_obj", "error_obj"}) =>
            IF obs[t].resp.kind = "error_obj"
            THEN result[t] = "failed"
            ELSE /\ result[t] = "returned"
                 /\ obs[t].value = (IF obs[t].resp.kind \in {"list", "projects_obj"}
                                    THEN obs[t].resp.list ELSE <<obs[t].resp.obj>>)

C17_Witness ==
    \E t \in Tasks :
        /\ pc[t] = "done" /\ tool[t].name = "client.get_user_projects"
        /\ obs[t].resp.kind = "single_obj"
        /\ obs[t].value = <<"ALTR-1">>

\* C18: get_errors asks for the given project id when it is non-empty and
\* for the configured default otherwise; with neither it fails before it
\* sends any request.
C18_GetErrorsProjectIdFallback ==
    \A t \in Tasks :
        (tool[t].name = "client.get_errors" /\ pc[t] /= "idle") =>
            LET given == tool[t].project_id
                default == ProjectId(config, heap)
            IN /\ obs[t].remote > 0 =>
                      obs[t].target = (IF given \in {"ALTR-1", "ALTR-2", "P-3"} THEN given
                                       ELSE default)
               /\ (given \in {NULL, ""} /\ default \in {NULL, "", ABSENT}) =>
                      /\ obs[t].remote = 0
                      /\ pc[t] = "done"
                      /\ result[t] \in {"no_project_id", "key_error"}
               /\ (Truthy(AuthToken(config, heap))
                   /\ (given \in {"ALTR-1", "ALTR-2", "P-3"} \/ default = "ALTR-1")) =>
                      obs[t].remote = 1

C18_Witness ==
    \E t \in Tasks :
        /\ tool[t].name = "client.get_errors" /\ pc[t] = "done"
        /\ tool[t].project_id = NULL
        /\ ProjectId(config, heap) = NULL
        /\ result[t] = "no_project_id"
        /\ obs[t].remote = 0

\* The token the file holds (ABSENT without a stored auth object).
PersistedToken(f) ==
    IF f.kind = "object" /\ f.has_auth THEN f.auth.token ELSE ABSENT

\* C19: a candidate token that has not passed validation is never written
\* to the file: while validate_token is suspended on its trial request and
\* another handler that validates nothing (set-default-project, clear) has
\* run, the file does not hold the candidate unless it held it when the
\* validation began.
C19_UnvalidatedTokenNeverPersisted ==
    \A t \in Tasks :
        (/\ pc[t] = "validate_await"
         /\ PersistedToken(before[t].validate.file) /= vt[t].token
         /\ \A u \in Tasks \ {t} :
                tool[u].name \in {"none", "altary_set_project", "altary_clear"}) =>
            PersistedToken(config_file) /= vt[t].token

\* C20: the auth result of a flow is written once: after the first
\* callback request the record stays what that request made it, and the
\* flow ends with the token or the error of the first request.
C20_AuthResultWrittenOnce ==
    \A t \in Tasks :
        flow[t].nreqs >= 1 =>
            LET first == HandleCallback([token |-> NULL, error |-> NULL],
                                        flow[t].first_req.token, flow[t].first_req.error)
            IN /\ flow[t].auth_result = first
               /\ pc[t] = "flow_done" => flow[t].outcome = FlowDecide(first)


\* ------------------------------------------------------------------ C22
\* C22: after one callback request that was answered normally, an `error`
\* parameter that was present (whatever came with it) left a failure and no
\* token in the record, a token is in the record only if no `error` parameter
\* was present, and a request answered with 500 leaves the listener bound
\* while the coordinator still sleeps.
C22_ErrorParameterRecordsFailure ==
    /\ (flow[1].nreqs = 1 /\ flow[1].response = "200") =>
          /\ (flow[1].first_req.error # NULL =>
                  Truthy(flow[1].auth_result.error) /\ flow[1].auth_result.token = NULL)
          /\ (flow[1].auth_result.token # NULL => flow[1].first_req.error = NULL)
    /\ (flow[1].response = "500" /\ pc[1] \in {"poll_sleep", "hold"}) =>
          flow[1].site = "bound" /\ Truthy(flow[1].auth_result.error)

\* ------------------------------------------------------------------ C23
\* C23: once the listener is bound the call of start_callback_auth ends with
\* the listener stopped and the runner cleaned, having returned a token or
\* raised; and a call that left the polling loop did so with a result in the
\* record or with the loop exhausted.
C23_FlowTerminates ==
    /\ (flow[1].site = "bound") ~>
          (pc[1] = "flow_done" /\ flow[1].site = "stopped" /\ flow[1].runner = "cleaned"
              /\ flow[1].status \in {"returned", "raised"})
    /\ [](flow[1].loop_exit # "none" =>
              \/ flow[1].loop_exit = "break" /\ flow[1].recorded_at_exit
              \/ flow[1].loop_exit = "exhausted" /\ flow[1].i >= PollIterations)

\* No request ever arrived and the browser did not open: the call timed out.
C23_Witness ==
    /\ pc[1] = "flow_done"
    /\ flow[1].nreqs = 0
    /\ flow[1].browser = "failed"
    /\ flow[1].site = "stopped"
    /\ flow[1].outcome.kind = "timeout"

\* ------------------------------------------------------------------ C24
\* C24: a call of start_callback_auth that left its polling loop with both an
\* error and a token in the record raises with that error, and does not
\* return the token.
C24_ErrorWinsOverToken ==
    \A t \in Tasks :
        (flow[t].both_at_exit /\ pc[t] \in {"cleanup", "flow_done"}) =>
            /\ flow[t].outcome = [kind |-> "auth_error", value |-> flow[t].auth_result.error]
            /\ (pc[t] = "flow_done" => flow[t].status = "raised")

\* A token arrived first and an error within the same poll interval.
C24_Witness ==
    /\ pc[1] = "flow_done"
    /\ flow[1].both_at_exit
    /\ Truthy(flow[1].first_req.token)
    /\ flow[1].first_req.error = NULL
    /\ flow[1].status = "raised"

\* ------------------------------------------------------------------ C29
\* C29: when save_config fails in the auth_token setter (the token had
\* validated and the handler reports the failure) or in the project_id
\* setter (the project id in memory became the new one and the handler
\* reports the failure), the value in memory is the new one and the file is
\* what it was when the tool was called.
C29_FailedSaveKeepsPreviousFile ==
    /\ (pc[1] = "done" /\ tool[1].name = "auth_token" /\ vt[1].ret = "true"
        /\ result[1] = "validation_error") =>
            /\ AuthToken(config, heap) = vt[1].token
            /\ config_file = before[1].call.file
    /\ (pc[1] = "done" /\ tool[1].name = "altary_set_project"
        /\ result[1] = "set_failed"
        /\ ProjectId(config, heap) = tool[1].project_id
        /\ ProjectId(before[1].call.config, before[1].call.heap) # tool[1].project_id) =>
            config_file = before[1].call.file

C25_NoRequestWithoutToken ==
    \A t \in Tasks :
        /\ obs[t].remote > 0 => Truthy(obs[t].header)
        /\ (pc[t] = "done"
            /\ tool[t].name \in {"altary_projects", "altary_complete", "altary_set_project"}
            /\ tool[t].project_id # ABSENT
            /\ ~Truthy(AuthToken(before[t].call.config, before[t].call.heap))) =>
               /\ obs[t].remote = 0
               /\ result[t] = "not_authenticated"

\* ------------------------------------------------------------------ C26
\* C26: in a process started from the default configuration the project id,
\* in memory and in the file, is null or an id that starts with "ALTR-" and
\* that the remote project list held when it was set ("ALTR-2" is never in
\* a remote list); and a call of the set-project tool that changed the
\* project id was made while a token was stored.
C26_StoredProjectIdValidated ==
    /\ ProjectId(config, heap) \in {NULL, "ALTR-1"}
    /\ PersistedView(config_file).project_id \in {NULL, "ALTR-1"}
    /\ \A t \in Tasks :
           (pc[t] = "done"
            /\ ProjectId(config, heap)
                 # ProjectId(before[t].call.config, before[t].call.heap)) =>
               /\ tool[t].name = "altary_set_project"
               /\ ProjectId(config, heap) = tool[t].project_id
               /\ StartsWith(tool[t].project_id, AltrPrefix)
               /\ Truthy(AuthToken(before[t].call.config, before[t].call.heap))

\* The project id was set and persisted, and survives in memory and file.
C26_Witness ==
    /\ pc[1] = "done" /\ tool[1].name = "altary_set_project"
    /\ result[1] = "project_set"
    /\ ProjectId(config, heap) = "ALTR-1"
    /\ PersistedView(config_file).project_id = "ALTR-1"
    /\ ProjectId(before[1].call.config, before[1].call.heap) = NULL

\* ------------------------------------------------------------------ C21
\* C21: at most one call of start_callback_auth is running in the process
\* at any time, and so at most one listener is set up or bound.
C21_SingleActiveFlow ==
    /\ Cardinality({t \in Tasks : flow[t].status = "running"}) <= 1
    /\ Cardinality({t \in Tasks : flow[t].site \in {"new", "bound"}}) <= 1

\* ------------------------------------------------------------------ C28
\* C28: while no handler is in flight the auth token in memory is the auth
\* token a fresh process would load from the file.
C28_IdleMemoryEqualsPersisted ==
    (phase = "serving" /\ \A t \in Tasks : pc[t] \in {"idle", "done"}) =>
        AuthToken(config, heap) = PersistedView(config_file).token

====
